---- MODULE Spec2Model ----
(***************************************************************************)
(* smartdirs: create_dir / load_config / log_directory (smartdirs/core.py). *)
(* Directory names are sequences of one-character strings, so that the      *)
(* formatting of the numeric tag, the joining with the separator and the    *)
(* regular-expression scan of the existing siblings are computed on the     *)
(* characters, as the code computes them.                                   *)
(***************************************************************************)
EXTENDS Integers, Sequences, FiniteSets, TLC

VARIABLES fs, now, cfgFile, opts, last, ncalls, nok, streak, procs

vars == <<fs, now, cfgFile, opts, last, ncalls, nok, streak, procs>>

(* Number of sequential create_dir calls explored in one behaviour. *)
MaxCalls == 3

----------------------------------------------------------------------------
(* Characters, numbers and strings                                          *)

Digits == <<"0", "1", "2", "3", "4", "5", "6", "7", "8", "9">>

(* \d of the pattern, restricted to the ASCII digits. *)
IsDigit(c) == \E i \in 1..Len(Digits) : Digits[i] = c

DigitVal(c) == (CHOOSE i \in 1..Len(Digits) : Digits[i] = c) - 1

AllDigits(s) == \A i \in 1..Len(s) : IsDigit(s[i])

(* f"{new_num}": the decimal digits of a natural number, no leading zero. *)
RECURSIVE FormatInt(_)
FormatInt(n) ==
    IF n < 10 THEN <<Digits[n + 1]>>
    ELSE FormatInt(n \div 10) \o <<Digits[(n % 10) + 1]>>

(* int(s) for a string of digits (leading zeros allowed). *)
RECURSIVE ParseInt(_)
ParseInt(s) ==
    IF s = <<>> THEN 0
    ELSE 10 * ParseInt(SubSeq(s, 1, Len(s) - 1)) + DigitVal(s[Len(s)])

(* int(match.group(k) or 0): a group that did not take part is None. *)
GroupInt(g) == IF g = <<>> THEN 0 ELSE ParseInt(g)

Max2(a, b) == IF a >= b THEN a ELSE b

StartsWith(s, p) == Len(p) <= Len(s) /\ SubSeq(s, 1, Len(p)) = p

Drop(s, k) == SubSeq(s, k + 1, Len(s))

(* separator.join([s for s in parts if s]) *)
RECURSIVE JoinNonEmpty(_, _)
JoinNonEmpty(sep, parts) ==
    IF parts = <<>> THEN <<>>
    ELSE LET rest == JoinNonEmpty(sep, Tail(parts)) IN
         IF Head(parts) = <<>> THEN rest
         ELSE IF rest = <<>> THEN Head(parts)
         ELSE Head(parts) \o sep \o rest

(* str.lstrip("0"): every leading "0" is removed. *)
RECURSIVE Lstrip0(_)
Lstrip0(s) ==
    IF s # <<>> /\ Head(s) = "0" THEN Lstrip0(Tail(s)) ELSE s

----------------------------------------------------------------------------
(* The pattern of create_dir and its scan of the existing siblings          *)

(* What the separator means inside the pattern: dir_base goes through        *)
(* re.escape, the separator is interpolated as it is.  An ordinary character *)
(* stands for itself.  "|" is the alternation operator: (?:(\d+)|)? and      *)
(* (?:|(\d+))? then match digits or nothing, so the pattern asks for no      *)
(* separator character at all.                                               *)
PatternSep(separator) == IF separator = <<"|">> THEN <<>> ELSE separator

NoMatch == [matched |-> FALSE, group1 |-> <<>>, group2 |-> <<>>]

(* (?:SEP(\d+))?$ against the rest of the name: group is <<>> when the       *)
(* optional part did not take part.                                          *)
SuffixGroup(rest, psep) ==
    IF rest = <<>> THEN [matched |-> TRUE, group |-> <<>>]
    ELSE IF /\ StartsWith(rest, psep)
            /\ Drop(rest, Len(psep)) # <<>>
            /\ AllDigits(Drop(rest, Len(psep)))
         THEN [matched |-> TRUE, group |-> Drop(rest, Len(psep))]
         ELSE [matched |-> FALSE, group |-> <<>>]

(* BASE(?:SEP(\d+))?$ *)
BodyMatch(s, psep, dir_base) ==
    IF StartsWith(s, dir_base) THEN SuffixGroup(Drop(s, Len(dir_base)), psep)
    ELSE [matched |-> FALSE, group |-> <<>>]

(* The length of the run of digits a name starts with: what (\d+) can take   *)
(* at the start of the name.                                                 *)
RECURSIVE DigitRun(_)
DigitRun(s) ==
    IF s # <<>> /\ IsDigit(Head(s)) THEN 1 + DigitRun(Tail(s)) ELSE 0

(* re.match(pattern, dir_name) for                                           *)
(*   ^(?:(\d+)SEP)?BASE(?:SEP(\d+))?$                                        *)
(* with the backtracking order of the engine: the optional prefix is tried   *)
(* first, with the longest run of digits first; only when no prefix leads to *)
(* a match is the name tried without one.                                    *)
ReMatch(psep, dir_base, dir_name) ==
    LET PrefixLens == {k \in 1..DigitRun(dir_name) :
                          /\ StartsWith(Drop(dir_name, k), psep)
                          /\ BodyMatch(Drop(dir_name, k + Len(psep)), psep, dir_base).matched}
    IN  IF PrefixLens # {}
        THEN LET k == CHOOSE x \in PrefixLens : \A y \in PrefixLens : y <= x
             IN  [matched |-> TRUE,
                  group1  |-> SubSeq(dir_name, 1, k),
                  group2  |-> BodyMatch(Drop(dir_name, k + Len(psep)), psep, dir_base).group]
        ELSE LET b == BodyMatch(dir_name, psep, dir_base)
             IN  IF b.matched
                 THEN [matched |-> TRUE, group1 |-> <<>>, group2 |-> b.group]
                 ELSE NoMatch

(* One turn of the loop over existing_dirs. *)
ScanOne(acc, psep, dir_base, dir_name) ==
    LET m == ReMatch(psep, dir_base, dir_name)
    IN  IF m.matched
        THEN [max_prefix |-> Max2(acc.max_prefix, GroupInt(m.group1)),
              max_suffix |-> Max2(acc.max_suffix, GroupInt(m.group2))]
        ELSE acc

(* The loop over existing_dirs, from max_prefix = max_suffix = 0. *)
RECURSIVE ScanLoop(_, _, _, _)
ScanLoop(names, psep, dir_base, acc) ==
    IF names = {} THEN acc
    ELSE LET d == CHOOSE x \in names : TRUE
         IN  ScanLoop(names \ {d}, psep, dir_base, ScanOne(acc, psep, dir_base, d))

ScanDirs(existing_dirs, separator, dir_base) ==
    ScanLoop(existing_dirs, PatternSep(separator), dir_base,
             [max_prefix |-> 0, max_suffix |-> 0])

(* The number the new name gets; 0 when neither prefix nor suffix is asked   *)
(* for (the code then assigns no number).                                    *)
NewNum(prefix, suffix, sc) ==
    IF prefix /\ ~suffix THEN sc.max_prefix + 1
    ELSE IF suffix /\ ~prefix THEN sc.max_suffix + 1
    ELSE IF prefix /\ suffix THEN Max2(sc.max_prefix, sc.max_suffix) + 1
    ELSE 0

(* "Decide on new directory name". *)
NewDirName(prefix, suffix, separator, dir_base, new_num) ==
    IF prefix /\ ~suffix THEN FormatInt(new_num) \o separator \o dir_base
    ELSE IF suffix /\ ~prefix THEN dir_base \o separator \o FormatInt(new_num)
    ELSE IF prefix /\ suffix
         THEN FormatInt(new_num) \o separator \o dir_base \o separator \o FormatInt(new_num)
    ELSE dir_base

----------------------------------------------------------------------------
(* Configuration, time zones and the clock                                  *)

(* None and "" are both false in "if timezone:" and "if not log_dir:";       *)
(* the model writes "" for either.                                           *)
None == ""

(* The settings files create_dir can be pointed at: none, and two with the   *)
(* [smartdirs] section.                                                      *)
NoConfigFile ==
    [exists |-> FALSE, section |-> FALSE, timezone |-> None,
     time_format_with_seconds |-> FALSE, log_dir |-> None]

ConfigFiles ==
    { NoConfigFile,
      [exists |-> TRUE, section |-> TRUE, timezone |-> "UTC",
       time_format_with_seconds |-> TRUE, log_dir |-> "logs"],
      [exists |-> TRUE, section |-> TRUE, timezone |-> "Mars/Phobos",
       time_format_with_seconds |-> FALSE, log_dir |-> "logs"] }

load_config(file) ==
    IF file.exists /\ file.section
    THEN [timezone |-> file.timezone,
          time_format_with_seconds |-> file.time_format_with_seconds,
          log_dir |-> file.log_dir]
    ELSE [timezone |-> None, time_format_with_seconds |-> FALSE, log_dir |-> None]

(* The zone names pytz knows, among those the model passes. *)
KnownZones == {"UTC"}

Timezones == {None, "UTC", "Mars/Phobos"}

(* pytz.timezone(name): raises UnknownTimeZoneError for an unknown name. *)
PytzTimezone(name) ==
    IF name \in KnownZones THEN [ok |-> TRUE, tz |-> name]
    ELSE [ok |-> FALSE, tz |-> None]

(* "Set timezone": explicit argument, else configuration, else local zone. *)
ResolveTz(timezone, config) ==
    IF timezone # None THEN PytzTimezone(timezone)
    ELSE IF config.timezone # None THEN PytzTimezone(config.timezone)
    ELSE [ok |-> TRUE, tz |-> "local"]

(* "Set time format", time_format=None. *)
TimeFormat(config) ==
    IF config.time_format_with_seconds THEN "%I:%M:%S%p" ELSE "%I:%M%p"

(* The instants of the wall clock the model passes through, each with what   *)
(* strftime prints for it (all zones of the model read the same wall clock). *)
Clock ==
    << [date |-> <<"2", "0", "2", "5", "-", "0", "5", "-", "1", "7">>,
        hm   |-> <<"0", "5", ":", "0", "8", "A", "M">>,
        hms  |-> <<"0", "5", ":", "0", "8", ":", "0", "9", "A", "M">>],
       [date |-> <<"2", "0", "2", "5", "-", "0", "5", "-", "1", "8">>,
        hm   |-> <<"1", "0", ":", "3", "0", "P", "M">>,
        hms  |-> <<"1", "0", ":", "3", "0", ":", "0", "0", "P", "M">>] >>

(* now.strftime(fmt) for date_format="%Y-%m-%d" and the two time formats. *)
Strftime(t, fmt) ==
    IF fmt = "%Y-%m-%d" THEN Clock[t].date
    ELSE IF fmt = "%I:%M:%S%p" THEN Clock[t].hms
    ELSE Clock[t].hm

(* "Prepare timestamp if needed". *)
Timestamp(use_date, use_time, separator, time_format, t) ==
    IF use_date \/ use_time
    THEN LET date_str == IF use_date THEN Strftime(t, "%Y-%m-%d") ELSE <<>>
             time_str == IF use_time THEN Lstrip0(Strftime(t, time_format)) ELSE <<>>
         IN  JoinNonEmpty(separator, <<date_str, time_str>>)
    ELSE <<>>

(* "Base name for checking existing dirs". *)
DirBase(base_name, separator, timestamp) ==
    JoinNonEmpty(separator, <<base_name, timestamp>>)

----------------------------------------------------------------------------
(* The file system: the parent directory, the directories under it (by      *)
(* name), the log directory and smartdirs.log (a header or a data row per    *)
(* line).  The log directory lies outside the parent.                        *)

EmptyFs(parent) ==
    [parent |-> parent, dirs |-> {}, logDir |-> FALSE,
     logExists |-> FALSE, logRows |-> <<>>]

(* parent_path.mkdir(parents=True, exist_ok=True) *)
MkdirParent(f) == [f EXCEPT !.parent = TRUE]

(* [d.name for d in parent_path.iterdir() if d.is_dir()] *)
ExistingDirs(f) == f.dirs

(* The path parent_path / name is a directory on the file system; the empty  *)
(* name is the parent itself.                                                *)
IsDir(f, name) == f.parent /\ (name = <<>> \/ name \in f.dirs)

(* Path.mkdir(parents=True, exist_ok=...) of parent_path / name: with        *)
(* exist_ok an existing directory is left as it is, without it mkdir raises  *)
(* FileExistsError.                                                          *)
MkdirWith(f, name, exist_ok) ==
    IF IsDir(f, name)
    THEN [ok |-> exist_ok, fs |-> f]
    ELSE [ok |-> TRUE,
          fs |-> IF name = <<>> THEN [f EXCEPT !.parent = TRUE]
                 ELSE [f EXCEPT !.parent = TRUE, !.dirs = @ \cup {name}]]

(* A mkdir of the parent alone: the named directory is not made. *)
Mkdir_parent_only(f, new_dir_name) == [ok |-> TRUE, fs |-> [f EXCEPT !.parent = TRUE]]

(* A mkdir that does not tolerate an existing directory. *)
Mkdir_strict(f, new_dir_name) == MkdirWith(f, new_dir_name, FALSE)

(* new_dir_path.mkdir(parents=True, exist_ok=True) *)
Mkdir(f, new_dir_name) == MkdirWith(f, new_dir_name, TRUE)

HeaderRow == [kind |-> "header", date |-> 0, directory |-> <<>>]

DataRow(t, name) == [kind |-> "row", date |-> t, directory |-> name]

(* log_dir.mkdir(parents=True, exist_ok=True) *)
MkdirLogDir(f) == [f EXCEPT !.logDir = TRUE]

(* The header written on every append. *)
AppendLog_header_each_time(f, file_exists, row) ==
    [f EXCEPT !.logExists = TRUE, !.logRows = @ \o <<HeaderRow, row>>]

(* open(log_file, "a"): the file exists from here on, empty if it is new. *)
OpenLog(f) == [f EXCEPT !.logExists = TRUE]

(* writerow(headers) if not file_exists, writerow(row): both rows sit in the  *)
(* file object's buffer and reach the end of the file together, when the     *)
(* with block closes it.                                                     *)
WriteRows(f, file_exists, row) ==
    [f EXCEPT !.logRows = IF file_exists THEN Append(@, row)
                          ELSE @ \o <<HeaderRow, row>>]

(* with open(log_file, "a", newline="") as f: ... *)
AppendLog(f, file_exists, row) == WriteRows(OpenLog(f), file_exists, row)

(* t_log is the instant of the clock read for creation_time. *)
log_directory(f, log_dir, name, t_log) ==
    IF log_dir = None THEN f
    ELSE LET f1 == MkdirLogDir(f)
             file_exists == f1.logExists
         IN  AppendLog(f1, file_exists, DataRow(t_log, name))

----------------------------------------------------------------------------
(* create_dir, as one call                                                  *)

NoReq == [base_name |-> <<>>, timezone |-> None, prefix |-> FALSE, suffix |-> FALSE]

(* The call ends by raising: nothing is returned. *)
Raise(error, f, req) ==
    [status |-> error, req |-> req, fs |-> f, created |-> <<>>, ret |-> <<>>,
     dir_base |-> <<>>, existing |-> {}, new_num |-> 0]

(* An unknown zone raised only after the parent directory was made. *)
RaiseTz_after_mkdir(f, req) == Raise("UnknownTimeZoneError", MkdirParent(f), req)

(* pytz.timezone raises before create_dir has touched the file system. *)
RaiseTz(f, req) == Raise("UnknownTimeZoneError", f, req)

(* t is the instant of the clock read for the timestamp of the name, t_log    *)
(* the instant of the later clock read in log_directory.                     *)
create_dir(f, file, t, t_log, o, req) ==
    LET config == load_config(file)
        tzr    == ResolveTz(req.timezone, config)
    IN  IF ~tzr.ok THEN RaiseTz(f, req)
        ELSE
        LET time_format   == TimeFormat(config)
            f1            == MkdirParent(f)
            timestamp     == Timestamp(o.use_date, o.use_time, o.separator, time_format, t)
            dir_base      == DirBase(req.base_name, o.separator, timestamp)
            existing_dirs == ExistingDirs(f1)
            sc            == ScanDirs(existing_dirs, o.separator, dir_base)
            new_num       == NewNum(req.prefix, req.suffix, sc)
            new_dir_name  == NewDirName(req.prefix, req.suffix, o.separator, dir_base, new_num)
            made          == Mkdir(f1, new_dir_name)
        IN  IF ~made.ok THEN Raise("FileExistsError", made.fs, req)
            ELSE [status |-> "ok", req |-> req,
                  fs |-> log_directory(made.fs, config.log_dir, new_dir_name, t_log),
                  created |-> new_dir_name, ret |-> new_dir_name,
                  dir_base |-> dir_base,
                  existing |-> existing_dirs, new_num |-> new_num]

----------------------------------------------------------------------------
(* Sequential callers: one create_dir call after another on the same parent *)

BaseNames == { <<"d">>, <<"1", "-", "1">> }

Separators == { <<"-">>, <<"|">> }

(* The options a run keeps for all its calls. *)
Options == [separator : Separators, use_date : BOOLEAN, use_time : BOOLEAN]

(* The calls of a run: every base name with every choice of prefix and suffix *)
(* and no explicit zone, and the default call with each explicit zone.       *)
Requests ==
    [base_name : BaseNames, timezone : {None}, prefix : BOOLEAN, suffix : BOOLEAN]
    \cup [base_name : {<<"d">>}, timezone : Timezones, prefix : {TRUE}, suffix : {FALSE}]

Procs == {"p1", "p2"}

IdleProc ==
    [pc |-> "idle", req |-> NoReq, log_dir |-> None, dir_base |-> <<>>,
     existing |-> {}, new_dir_name |-> <<>>, row_time |-> 0,
     file_exists |-> FALSE, ret |-> <<>>]

NoCall ==
    [status |-> "none", req |-> NoReq, created |-> <<>>, ret |-> <<>>,
     dir_base |-> <<>>,
     existing |-> {}, new_num |-> 0]

Init ==
    /\ fs \in {EmptyFs(FALSE), EmptyFs(TRUE)}
    /\ now = 1
    /\ cfgFile \in ConfigFiles
    /\ opts \in Options
    /\ last = NoCall
    /\ ncalls = 0
    /\ nok = 0
    /\ streak = 0
    /\ procs = [p \in Procs |-> IdleProc]

(* The length of the run of successful calls, from the first call on the     *)
(* empty parent, that all had the same arguments and the same dir_base.      *)
NextStreak(r) ==
    IF /\ r.status = "ok"
       /\ streak = ncalls
       /\ ncalls = 0 \/ (r.req = last.req /\ r.dir_base = last.dir_base)
    THEN streak + 1
    ELSE 0

(* One whole create_dir call.  The clock may move on during the call: the    *)
(* name is stamped at the instant the call starts with, the log row at the   *)
(* same or a later one, where the call leaves the clock.  A call that writes *)
(* no log row reads the clock no second time.                                *)
CreateDir(req) ==
    /\ ncalls < MaxCalls
    /\ \E t_log \in now..Len(Clock) :
       \E r \in {create_dir(fs, cfgFile, now, t_log, opts, req)} :
           /\ t_log # now => (r.status = "ok" /\ load_config(cfgFile).log_dir # None)
           /\ now' = t_log
           /\ fs' = r.fs
           /\ last' = [status |-> r.status, req |-> r.req,
                       created |-> r.created, ret |-> r.ret,
                       dir_base |-> r.dir_base, existing |-> r.existing,
                       new_num |-> r.new_num]
           /\ nok' = IF r.status = "ok" THEN nok + 1 ELSE nok
           /\ streak' = NextStreak(r)
    /\ ncalls' = ncalls + 1
    /\ UNCHANGED <<cfgFile, opts, procs>>

(* Time passes. *)
Tick ==
    /\ now < Len(Clock)
    /\ now' = now + 1
    /\ UNCHANGED <<fs, cfgFile, opts, last, ncalls, nok, streak, procs>>

Next ==
    \/ \E req \in Requests : CreateDir(req)
    \/ Tick

Spec == Init /\ [][Next]_vars

----------------------------------------------------------------------------
(* Concurrent callers: each process makes one create_dir call, and the call *)
(* is the sequence of its file-system operations, which interleave with the  *)
(* other caller's.                                                           *)

ConcRequests ==
    [base_name : BaseNames, timezone : {None}, prefix : BOOLEAN, suffix : BOOLEAN]

InitConc ==
    /\ Init
    /\ opts = [separator |-> <<"-">>, use_date |-> FALSE, use_time |-> FALSE]

seqvars == <<now, cfgFile, opts, last, ncalls, nok, streak>>

(* "Load configuration", "Set timezone", "Set time format": no shared state  *)
(* is written.                                                               *)
P_Enter(p, req) ==
    /\ procs[p].pc = "idle"
    /\ LET config == load_config(cfgFile)
           tzr    == ResolveTz(req.timezone, config)
       IN  procs' = [procs EXCEPT ![p] =
                        [@ EXCEPT !.pc = IF tzr.ok THEN "mkparent" ELSE "raised",
                                  !.req = req,
                                  !.log_dir = config.log_dir]]
    /\ UNCHANGED <<fs, seqvars>>

(* "Create parent directory". *)
P_MkParent(p) ==
    /\ procs[p].pc = "mkparent"
    /\ fs' = MkdirParent(fs)
    /\ procs' = [procs EXCEPT ![p].pc = "scan"]
    /\ UNCHANGED seqvars

(* "Get existing directories" and, on the listing read, the name decided. *)
P_Scan(p) ==
    /\ procs[p].pc = "scan"
    /\ LET req           == procs[p].req
           time_format   == TimeFormat(load_config(cfgFile))
           timestamp     == Timestamp(opts.use_date, opts.use_time, opts.separator,
                                      time_format, now)
           dir_base      == DirBase(req.base_name, opts.separator, timestamp)
           existing_dirs == ExistingDirs(fs)
           sc            == ScanDirs(existing_dirs, opts.separator, dir_base)
           new_num       == NewNum(req.prefix, req.suffix, sc)
       IN  procs' = [procs EXCEPT ![p] =
                        [@ EXCEPT !.pc = "mkdir",
                                  !.dir_base = dir_base,
                                  !.existing = existing_dirs,
                                  !.new_dir_name =
                                      NewDirName(req.prefix, req.suffix, opts.separator,
                                                 dir_base, new_num)]]
    /\ UNCHANGED <<fs, seqvars>>

(* "Create the directory"; without a log directory log_directory returns at  *)
(* once and the call returns the path.                                       *)
P_Mkdir(p) ==
    /\ procs[p].pc = "mkdir"
    /\ \E made \in {Mkdir(fs, procs[p].new_dir_name)} :
           /\ fs' = made.fs
           /\ procs' = [procs EXCEPT ![p] =
                           [@ EXCEPT !.pc = IF ~made.ok THEN "failed"
                                            ELSE IF procs[p].log_dir = None THEN "done"
                                            ELSE "logmkdir",
                                     !.ret = IF made.ok /\ procs[p].log_dir = None
                                             THEN procs[p].new_dir_name ELSE <<>>]]
    /\ UNCHANGED seqvars

(* log_dir.mkdir(parents=True, exist_ok=True) *)
P_LogMkdir(p) ==
    /\ procs[p].pc = "logmkdir"
    /\ fs' = MkdirLogDir(fs)
    /\ procs' = [procs EXCEPT ![p].pc = "logstamp"]
    /\ UNCHANGED seqvars

(* creation_time = datetime.now(tz)... *)
P_LogStamp(p) ==
    /\ procs[p].pc = "logstamp"
    /\ procs' = [procs EXCEPT ![p] =
                    [@ EXCEPT !.pc = "logexists", !.row_time = now]]
    /\ UNCHANGED <<fs, seqvars>>

(* file_exists = log_file.exists() *)
P_LogExists(p) ==
    /\ procs[p].pc = "logexists"
    /\ procs' = [procs EXCEPT ![p] =
                    [@ EXCEPT !.pc = "logopen", !.file_exists = fs.logExists]]
    /\ UNCHANGED <<fs, seqvars>>

(* open(log_file, "a") *)
P_LogOpen(p) ==
    /\ procs[p].pc = "logopen"
    /\ fs' = OpenLog(fs)
    /\ procs' = [procs EXCEPT ![p].pc = "logwrite"]
    /\ UNCHANGED seqvars

(* The buffered rows reach smartdirs.log as the file is closed, and the call *)
(* returns the path.                                                         *)
P_LogWrite(p) ==
    /\ procs[p].pc = "logwrite"
    /\ fs' = WriteRows(fs, procs[p].file_exists,
                       DataRow(procs[p].row_time, procs[p].new_dir_name))
    /\ procs' = [procs EXCEPT ![p] =
                    [@ EXCEPT !.pc = "done", !.ret = procs[p].new_dir_name]]
    /\ UNCHANGED seqvars

NextConc ==
    \/ \E p \in Procs :
           \/ \E req \in ConcRequests : P_Enter(p, req)
           \/ P_MkParent(p)
           \/ P_Scan(p)
           \/ P_Mkdir(p)
           \/ P_LogMkdir(p)
           \/ P_LogStamp(p)
           \/ P_LogExists(p)
           \/ P_LogOpen(p)
           \/ P_LogWrite(p)
    \/ Tick

SpecConc == InitConc /\ [][NextConc]_vars

----------------------------------------------------------------------------
(* Properties of the sequential callers                                     *)

LastOk == last.status = "ok"

(* A prefix or suffix tag is a numeric token prepended or appended to        *)
(* dir_base, separated from it by the separator.  Compose writes the name    *)
(* that carries the tokens p and q, either of which may be missing.          *)
Compose(p, sep, base, q) ==
    (IF p = <<>> THEN <<>> ELSE p \o sep) \o base
        \o (IF q = <<>> THEN <<>> ELSE sep \o q)

RECURSIVE LeadingDigits(_)
LeadingDigits(s) ==
    IF s # <<>> /\ IsDigit(Head(s)) THEN 1 + LeadingDigits(Tail(s)) ELSE 0

RECURSIVE TrailingDigits(_)
TrailingDigits(s) ==
    IF s # <<>> /\ IsDigit(s[Len(s)])
    THEN 1 + TrailingDigits(SubSeq(s, 1, Len(s) - 1)) ELSE 0

(* Every way of reading the name d as [p sep] dir_base [sep q] with numeric  *)
(* tokens p and q, for the separator and the dir_base of the last call.  A   *)
(* name that reads both as p sep dir_base and as dir_base sep q carries both *)
(* tags.                                                                     *)
TagsOf(d) ==
    {r \in {[prefix |-> SubSeq(d, 1, i), suffix |-> SubSeq(d, Len(d) - j + 1, Len(d))] :
               i \in 0..LeadingDigits(d), j \in 0..TrailingDigits(d)} :
        Compose(r.prefix, opts.separator, last.dir_base, r.suffix) = d}

(* The tags of the siblings that match dir_base; a missing one counts as 0. *)
TagNum(token) == IF token = <<>> THEN 0 ELSE ParseInt(token)

PrefixNums(D) == {TagNum(r.prefix) : r \in UNION {TagsOf(d) : d \in D}}

SuffixNums(D) == {TagNum(r.suffix) : r \in UNION {TagsOf(d) : d \in D}}

MaxOf(S) == LET T == S \cup {0} IN CHOOSE m \in T : \A x \in T : x <= m

(* The dir_base a call with the arguments of the last one computes now. *)
CurDirBase(req) ==
    DirBase(req.base_name, opts.separator,
            Timestamp(opts.use_date, opts.use_time, opts.separator,
                      TimeFormat(load_config(cfgFile)), now))

(* C1: every successful call made with prefix=true or suffix=true returns a  *)
(* name that no sibling directory had before the call.                       *)
C1_FreshName ==
    (LastOk /\ (last.req.prefix \/ last.req.suffix)) => last.ret \notin last.existing

(* C2: from an empty parent, the n-th of n successive identical calls with   *)
(* prefix=true, suffix=false and an unchanged dir_base returns               *)
(* n<separator>dir_base.                                                     *)
C2_NthPrefix ==
    (streak >= 1 /\ last.req.prefix /\ ~last.req.suffix)
        => last.ret = FormatInt(streak) \o opts.separator \o last.dir_base

(* C3: the number of the new name is greater than every prefix number and    *)
(* every suffix number of the existing siblings that match dir_base.         *)
C3_GreaterThanEveryTag ==
    (LastOk /\ (last.req.prefix \/ last.req.suffix))
        => \A n \in PrefixNums(last.existing) \cup SuffixNums(last.existing) :
               last.new_num > n

(* C4: with prefix=true and suffix=true the name is n<sep>dir_base<sep>n,    *)
(* n one more than the largest prefix or suffix number of the siblings that  *)
(* match dir_base (0 when there is none).                                    *)
C4_BothSameNumber ==
    (LastOk /\ last.req.prefix /\ last.req.suffix)
        => LET n == 1 + MaxOf(PrefixNums(last.existing) \cup SuffixNums(last.existing))
           IN  last.ret = FormatInt(n) \o opts.separator \o last.dir_base
                          \o opts.separator \o FormatInt(n)

(* C5: with suffix=true and prefix=false the name is dir_base<sep>n, n one   *)
(* more than the largest suffix number of the siblings that match dir_base,  *)
(* and the same n is computed from any part of the siblings that carries the *)
(* same suffix numbers, whatever prefix numbers it keeps or loses.           *)
C5_SuffixIndependent ==
    (LastOk /\ last.req.suffix /\ ~last.req.prefix)
        => /\ last.ret = last.dir_base \o opts.separator
                         \o FormatInt(1 + MaxOf(SuffixNums(last.existing)))
           /\ \A sn \in {SuffixNums(last.existing)} :
                  \A D \in SUBSET last.existing :
                      SuffixNums(D) = sn
                          => NewNum(FALSE, TRUE, ScanDirs(D, opts.separator, last.dir_base))
                             = last.new_num

C7_ReturnedPathExists ==
    LastOk => (last.ret = last.created /\ IsDir(fs, last.ret))

(* A call with date, time, prefix and suffix all switched on returned. *)
C7_Witness ==
    /\ LastOk /\ last.req.prefix /\ last.req.suffix
    /\ opts.use_date /\ opts.use_time

(* C8: with a log directory configured and no log file at the start, after   *)
(* N successful calls the log holds one header row followed by N data rows,  *)
(* the last of them for the directory the last call returned.                *)
C8_LogRows ==
    load_config(cfgFile).log_dir # None
        => IF nok = 0 THEN ~fs.logExists /\ fs.logRows = <<>>
           ELSE /\ fs.logExists
                /\ Len(fs.logRows) = nok + 1
                /\ fs.logRows[1] = HeaderRow
                /\ \A i \in 2..Len(fs.logRows) : fs.logRows[i].kind = "row"
                /\ LastOk => fs.logRows[Len(fs.logRows)].directory = last.ret

(* A logged call reused a directory that existed already. *)
C8_Witness ==
    /\ load_config(cfgFile).log_dir # None
    /\ nok >= 2 /\ LastOk /\ last.ret \in last.existing

(* C9: a call that raises the time zone error leaves the parent directory,   *)
(* the directories under it, the log directory and the log file as they were.*)
C9_TimezoneErrorNoSideEffects ==
    [][(ncalls' = ncalls + 1 /\ last'.status = "UnknownTimeZoneError")
       => fs' = fs]_vars

(* A call raised the time zone error while the parent directory did not      *)
(* exist.                                                                    *)
C9_Witness ==
    last.status = "UnknownTimeZoneError" /\ ~fs.parent

----------------------------------------------------------------------------
(* Properties of the concurrent callers                                     *)

PastScan(p) ==
    procs[p].pc \in {"mkdir", "logmkdir", "logstamp", "logexists", "logopen",
                    "logwrite", "done", "failed"}

(* Two callers with the same base name and prefix=true listed the same       *)
(* siblings, each before the other had made its directory, and so decided on *)
(* the same name.                                                            *)
Raced(p, q) ==
    /\ p # q
    /\ PastScan(p) /\ PastScan(q)
    /\ procs[p].req.prefix /\ procs[q].req.prefix
    /\ procs[p].req.base_name = procs[q].req.base_name
    /\ procs[p].existing = procs[q].existing
    /\ procs[p].new_dir_name = procs[q].new_dir_name

(* C10: when two concurrent callers have computed the same tagged name from  *)
(* the same listing, neither creation fails, and once both have returned     *)
(* they have returned the same path, which is a directory.                   *)
C10_RaceSamePath ==
    \A p, q \in Procs :
        Raced(p, q)
            => /\ procs[p].pc # "failed" /\ procs[q].pc # "failed"
               /\ (procs[p].pc = "done" /\ procs[q].pc = "done")
                      => /\ procs[p].ret = procs[q].ret
                         /\ procs[p].ret = procs[p].new_dir_name
                         /\ IsDir(fs, procs[p].ret)

(* Both callers raced on the same numeric tag and both have returned. *)
C10_Witness ==
    \E p, q \in Procs :
        /\ Raced(p, q)
        /\ procs[p].pc = "done" /\ procs[q].pc = "done"
        /\ procs[p].req = procs[q].req
        /\ procs[p].existing = {}
        /\ procs[p].ret = <<"1", "-">> \o procs[p].dir_base

====
